---- MODULE Spec2Model ----
(***************************************************************************)
(* PyCairoRunner (crates/cairo-addons/src/vm/runner.rs): the lifecycle     *)
(* wrapper around the cairo_vm CairoRunner.  The state is the wrapper's    *)
(* fields (allow_missing_builtins, builtins) together with the fields of   *)
(* `inner` the wrapper's calls read and write.  Every public method is one *)
(* action; a method that changes the runner is an operator from the runner *)
(* record to a result record [st, ok, err, out, handed, walk, steps], so   *)
(* that verify_and_relocate can compose the others as the code does.       *)
(*                                                                         *)
(* What depends on the executed program (how many steps it takes, which    *)
(* cells it writes, whether its builtin cells are consistent) is an input  *)
(* of the RunUntilPc action, drawn from small sets.                        *)
(***************************************************************************)
EXTENDS Integers, Sequences, FiniteSets, TLC

VARIABLES self, last, hist

vars == <<self, last, hist>>

-----------------------------------------------------------------------------
(* Bounds of the model *)

\* segments (and builtin runners, each of which needs one beside the program
\* and execution segments) a runner may allocate; a call that would exceed it
\* is not taken
MaxSegments == 6
\* largest step budget (RunResources n_steps) and longest trace: a run that
\* would record more steps is not taken
MaxSteps == 1
\* longest trace of a runner whose relocated trace is read back (SpecTrace)
MaxTrace == 2

-----------------------------------------------------------------------------
(* Values *)

\* Option::None for an Option<usize> / Option<Relocatable{offset: 0}>
None == -1

\* MaybeRelocatable::Int, MaybeRelocatable::RelocatableValue, an unwritten cell
IntV(n) == [k |-> "int", s |-> 0, o |-> n]
RelV(s, o) == [k |-> "rel", s |-> s, o |-> o]
Hole == [k |-> "none", s |-> 0, o |-> 0]

\* BuiltinName values of the model, in cairo_vm's canonical builtin order
BuiltinOrder == <<"output", "range_check">>

\* the ordered_builtins lists a caller passes (NoNames is None): the names
\* carry the "_builtin" suffix, a bare "range_check" is not a valid name
NoNames == <<"None">>
OrderedBuiltins ==
    {NoNames, <<>>, <<"output_builtin">>,
     <<"output_builtin", "range_check_builtin">>,
     <<"output_builtin", "range_check">>}

\* the None of BuiltinName::from_str_with_suffix
InvalidName == "?"

\* BuiltinName::from_str_with_suffix: the name with its "_builtin" suffix,
\* None for any other string (a bare name included)
from_str_with_suffix(s) ==
    CASE s = "output_builtin" -> "output"
      [] s = "range_check_builtin" -> "range_check"
      [] OTHER -> InvalidName

Range(seq) == {seq[i] : i \in 1..Len(seq)}

Min(a, b) == IF a < b THEN a ELSE b

Reverse(seq) == [i \in 1..Len(seq) |-> seq[Len(seq) + 1 - i]]

\* sequences over S of length at most n
SeqsUpTo(S, n) == UNION {[1..m -> S] : m \in 0..n}

-----------------------------------------------------------------------------
(* Results of a method: PyResult<T> plus what the call did *)

NoErr == [type |-> "", msg |-> ""]
PyErr(type, msg) == [type |-> type, msg |-> msg]

Result(st, ok, err, out) ==
    [st |-> st, ok |-> ok, err |-> err, out |-> out,
     handed |-> <<>>, walk |-> <<>>, steps |-> <<>>]

\* the arguments of a call that takes none
NoArgs == [stack |-> <<>>, ordered_builtins |-> <<>>, offset |-> 0]

\* a call the method made, and how it ended
Step(name, r) == [name |-> name, ok |-> r.ok, err |-> r.err]

\* the result r of the call named name, as the only step of the method
WithStep(r, name) == [r EXCEPT !.steps = <<Step(name, r)>>]

Ok(st) == Result(st, TRUE, NoErr, None)
OkOut(st, out) == Result(st, TRUE, NoErr, out)
RuntimeError(st, msg) == Result(st, FALSE, PyErr("PyRuntimeError", msg), None)
ValueError(st, msg) == Result(st, FALSE, PyErr("PyValueError", msg), None)
\* a Rust panic (unwrap on None) crossing the binding boundary
Panic(st, msg) == Result(st, FALSE, PyErr("PanicException", msg), None)

-----------------------------------------------------------------------------
(* Memory of inner.vm.segments: memory[s + 1] is segment s *)

NumSegments(st) == Len(st.memory)

add_memory_segment(st) == [st EXCEPT !.memory = Append(@, <<>>)]

\* the cell at (seg, off), Hole when unallocated or unwritten
Cell(st, seg, off) ==
    IF seg >= 0 /\ seg < NumSegments(st) /\ off >= 0 /\ off < Len(st.memory[seg + 1])
    THEN st.memory[seg + 1][off + 1]
    ELSE Hole

\* Memory::insert of cells at (seg, off..): write-once, equal rewrites allowed
CanLoad(st, seg, off, cells) ==
    /\ seg >= 0 /\ seg < NumSegments(st)
    /\ \A i \in 1..Len(cells) :
          Cell(st, seg, off + i - 1) \in {Hole, cells[i]}

load_data(st, seg, off, cells) ==
    LET old == st.memory[seg + 1]
        n == IF Len(old) > off + Len(cells) THEN Len(old) ELSE off + Len(cells)
        new == [i \in 1..n |->
                   IF i > off /\ i <= off + Len(cells) THEN cells[i - off]
                   ELSE IF i <= Len(old) THEN old[i] ELSE Hole]
    IN [st EXCEPT !.memory[seg + 1] = new]

(* Option<Vec<_>> *)
NoneOf == [some |-> FALSE, v |-> <<>>]
Some(v) == [some |-> TRUE, v |-> v]
IsSome(opt) == opt.some

-----------------------------------------------------------------------------
(* PyCairoRunner::new *)

\* the runners constructed: a program using both builtins under a layout
\* that offers both, under a layout without range_check (missing builtins
\* allowed or not), and a program that lists its builtins out of order
Config(program_builtins, layout, allow) ==
    [program_builtins |-> program_builtins, layout |-> layout, allow |-> allow]

Configs ==
    {Config(<<"output", "range_check">>, {"output", "range_check"}, FALSE),
     Config(<<"output", "range_check">>, {"output"}, TRUE),
     Config(<<"output", "range_check">>, {"output"}, FALSE),
     Config(<<"range_check", "output">>, {"output", "range_check"}, FALSE)}

\* the code segment of the program (program.shared_program_data.data)
ProgramData == <<IntV(1)>>

\* the runner PyCairoRunner::new returns: inner is a fresh CairoRunner (no
\* segments, no builtin runners, registers at zero, trace enabled and empty),
\* builtins is the program's builtin list
new(program_builtins, layout, allow_missing_builtins) ==
    [allow_missing_builtins |-> allow_missing_builtins,
     builtins |-> program_builtins,
     \* inner: RustCairoRunner
     program_builtins |-> program_builtins,
     layout |-> layout,
     builtin_runners |-> <<>>,
     program_base |-> None,
     execution_base |-> None,
     initial_pc |-> Hole,
     initial_ap |-> None,
     initial_fp |-> None,
     final_pc |-> Hole,
     pc |-> RelV(0, 0),
     ap |-> 0,
     fp |-> 0,
     memory |-> <<>>,
     segment_used_sizes |-> NoneOf,
     deductions_ok |-> TRUE,
     run_ended |-> FALSE,
     trace |-> <<>>,
     relocated_memory |-> FALSE,
     relocated_trace |-> NoneOf]



-----------------------------------------------------------------------------
(* initialize_segments *)

is_subsequence(sub, seq) ==
    \E f \in [1..Len(sub) -> 1..Len(seq)] :
        /\ \A i \in 1..Len(sub) : seq[f[i]] = sub[i]
        /\ \A i, j \in 1..Len(sub) : i < j => f[i] < f[j]

\* a BuiltinRunner: its name, whether the program uses it, its segment (0
\* until its segment is initialized) and the stop pointer final_stack records
BuiltinRunner(name, included) ==
    [name |-> name, included |-> included, base |-> 0, stop_ptr |-> None]

\* inner.initialize_builtins(allow_missing_builtins): one runner per layout
\* builtin the program uses, pushed before the missing-builtin check (the
\* model covers proof_mode = false, where no other runner is pushed)
initialize_builtins(st, allow_missing_builtins) ==
    IF ~is_subsequence(st.program_builtins, BuiltinOrder)
    THEN RuntimeError(st, "DisorderedBuiltins")
    ELSE
    LET used(n) == n \in Range(st.program_builtins)
        pushed(n) == n \in st.layout /\ used(n)
        names == SelectSeq(BuiltinOrder, pushed)
        runners == [i \in 1..Len(names) |-> BuiltinRunner(names[i], TRUE)]
        st1 == [st EXCEPT !.builtin_runners = @ \o runners]
        missing == Range(st.program_builtins) \ st.layout
    IN IF missing # {} /\ ~allow_missing_builtins
       THEN RuntimeError(st1, "NoBuiltinForInstance")
       ELSE Ok(st1)

\* inner.initialize_segments(None): a program segment, an execution segment
\* and one segment per builtin runner, in that order
engine_initialize_segments(st) ==
    LET n == NumSegments(st)
        k == Len(st.builtin_runners)
    IN [st EXCEPT !.program_base = n,
                  !.execution_base = n + 1,
                  !.builtin_runners =
                      [i \in 1..k |-> [@[i] EXCEPT !.base = n + 1 + i]],
                  !.memory = @ \o [i \in 1..(k + 2) |-> <<>>]]

\* initialize_segments going on to allocate the segments whatever
\* initialize_builtins returned
initialize_segments_unchecked(st) ==
    LET r == initialize_builtins(st, st.allow_missing_builtins)
    IN [Ok(engine_initialize_segments(r.st)) EXCEPT
           !.steps = <<Step("initialize_builtins", r),
                       [name |-> "initialize_segments", ok |-> TRUE,
                        err |-> NoErr]>>]

initialize_segments(st) ==
    LET r == initialize_builtins(st, st.allow_missing_builtins)
    IN IF ~r.ok THEN WithStep(r, "initialize_builtins")
       ELSE [Ok(engine_initialize_segments(r.st)) EXCEPT
                !.steps = <<Step("initialize_builtins", r),
                            [name |-> "initialize_segments", ok |-> TRUE,
                             err |-> NoErr]>>]

-----------------------------------------------------------------------------
(* initialize_vm *)

\* the runners of a name, as positions in inner.vm.builtin_runners
RunnersOf(st, name) ==
    {i \in 1..Len(st.builtin_runners) : st.builtin_runners[i].name = name}

Max(S) == CHOOSE x \in S : \A y \in S : y <= x
Least(S) == CHOOSE x \in S : \A y \in S : x <= y

\* BuiltinRunner::initial_stack
initial_stack(runner) ==
    IF runner.included THEN <<RelV(runner.base, 0)>> ELSE <<>>

\* the loop of builtins_stack over self.builtins, from position i on
RECURSIVE builtins_stack_loop(_, _, _)
builtins_stack_loop(st, i, stack) ==
    IF i > Len(st.builtins) THEN OkOut(st, stack)
    ELSE LET found == RunnersOf(st, st.builtins[i])
         IN IF found = {}
            THEN ValueError(st, "Builtin runner not found")
            \* the map collected from the runners keeps the last of a name
            ELSE builtins_stack_loop(st, i + 1,
                    stack \o initial_stack(st.builtin_runners[Max(found)]))

\* builtins_stack storing the names it could parse before it reports the
\* one it could not
builtins_stack_storing(st, ordered_builtins) ==
    IF ordered_builtins # NoNames
    THEN LET parsed == [i \in 1..Len(ordered_builtins) |->
                           from_str_with_suffix(ordered_builtins[i])]
             valid == SelectSeq(parsed, LAMBDA name : name # InvalidName)
         IN IF InvalidName \in Range(parsed)
            THEN ValueError([st EXCEPT !.builtins = valid], "Invalid builtin name")
            ELSE builtins_stack_loop([st EXCEPT !.builtins = parsed], 1, <<>>)
    ELSE builtins_stack_loop(st, 1, <<>>)

\* builtins_stack(ordered_builtins): ordered_builtins is NoNames or the names
builtins_stack(st, ordered_builtins) ==
    IF ordered_builtins # NoNames
    THEN LET parsed == [i \in 1..Len(ordered_builtins) |->
                           from_str_with_suffix(ordered_builtins[i])]
         IN IF InvalidName \in Range(parsed)
            THEN ValueError(st, "Invalid builtin name")
            ELSE builtins_stack_loop([st EXCEPT !.builtins = parsed], 1, <<>>)
    ELSE builtins_stack_loop(st, 1, <<>>)

\* inner.initialize_function_entrypoint(entrypoint, stack, return_fp), with
\* its initialize_state: allocates the end segment, appends return_fp and end
\* to the stack, sets the initial registers, loads program and stack
initialize_function_entrypoint(st, entrypoint, stack, return_fp) ==
    LET end == RelV(NumSegments(st), 0)
        st1 == add_memory_segment(st)
        full == stack \o <<return_fp, end>>
    IN IF st1.execution_base = None
       THEN RuntimeError(st1, "NoExecBase")
       ELSE
       LET st2 == [st1 EXCEPT !.initial_fp = Len(full),
                              !.initial_ap = Len(full),
                              !.initial_pc = RelV(st1.program_base, entrypoint)]
       IN IF ~CanLoad(st2, st2.program_base, 0, ProgramData)
          THEN RuntimeError(st2, "MemoryInitializationError")
          ELSE
          LET st3 == load_data(st2, st2.program_base, 0, ProgramData)
          IN IF ~CanLoad(st3, st3.execution_base, 0, full)
             THEN RuntimeError(st3, "MemoryInitializationError")
             ELSE OkOut([load_data(st3, st3.execution_base, 0, full)
                            EXCEPT !.final_pc = end], end)

\* inner.initialize_vm(): the registers take their initial values
engine_initialize_vm(st) ==
    IF st.initial_pc = Hole THEN RuntimeError(st, "NoPC")
    ELSE Ok([st EXCEPT !.pc = st.initial_pc,
                       !.ap = st.initial_ap,
                       !.fp = st.initial_fp])

\* PyMaybeRelocatable -> MaybeRelocatable of the caller's stack
into(stack) == [i \in 1..Len(stack) |-> IntV(stack[i])]

initialize_vm(st, stack, entrypoint, ordered_builtins) ==
    LET r1 == builtins_stack(st, ordered_builtins)
    IN IF ~r1.ok THEN r1
       ELSE
       LET full == r1.out \o into(stack)
           return_fp == RelV(NumSegments(r1.st), 0)
           r2 == initialize_function_entrypoint(
                     add_memory_segment(r1.st), entrypoint, full, return_fp)
           called(r) ==
               [r EXCEPT !.handed = full,
                         !.steps = <<Step("initialize_function_entrypoint", r2)>>]
       IN IF ~r2.ok THEN called(r2)
          ELSE LET r3 == engine_initialize_vm(r2.st)
               IN IF ~r3.ok THEN called(r3)
                  ELSE called(OkOut(r3.st, r2.out))

-----------------------------------------------------------------------------
(* run_until_pc *)

\* SegmentManager::compute_effective_sizes: the sizes are computed once and
\* kept (segment_used_sizes.get_or_insert_with)
compute_effective_sizes(st) ==
    IF IsSome(st.segment_used_sizes) THEN st
    ELSE [st EXCEPT !.segment_used_sizes =
                        Some([i \in 1..NumSegments(st) |-> Len(st.memory[i])])]

\* VirtualMachine::verify_auto_deductions: every builtin-owned cell agrees
\* with its builtin's deduction rule
vm_verify_auto_deductions(st) ==
    IF st.deductions_ok THEN Ok(st)
    ELSE RuntimeError(st, "InconsistentAutoDeduction")

\* the vm can fetch an instruction at pc: pc is in the loaded program segment
CanStep(st) ==
    /\ st.program_base # None
    /\ st.pc.s = st.program_base
    /\ Cell(st, st.pc.s, st.pc.o).k = "int"

\* what the executed program does within a run, chosen by the program:
\* steps it takes, where it stops ("reached" the target, "fault" in the step
\* after, "exhausted" the budget), the cells it pushes on the stack at ap,
\* whether it writes past its code and whether its builtin cells are
\* consistent
Programs(st, address, budget) ==
    {prog \in [steps : 0..budget,
               stop : {"reached", "fault", "exhausted"},
               cells : SeqsUpTo({IntV(1)}
                                 \cup {RelV(st.builtin_runners[i].base, 0) :
                                          i \in 1..Len(st.builtin_runners)}, 1),
               past_code : BOOLEAN,
               deductions_ok : BOOLEAN] :
        /\ prog.past_code => prog.deductions_ok /\ prog.stop = "reached"
        /\ ~prog.deductions_ok => prog.stop = "reached"
        /\ prog.stop = "exhausted" => prog.steps = budget
        /\ prog.stop = "fault" => prog.steps < budget
        /\ prog.stop = "reached" =>
              /\ prog.steps >= 1
              /\ address.s = st.program_base \/ address = st.final_pc
        /\ Len(prog.cells) <= prog.steps
        /\ prog.cells # <<>> => prog.stop = "reached"
        /\ prog.past_code => prog.steps >= 1
        /\ ~prog.deductions_ok => st.builtin_runners # <<>>
        /\ CanLoad(st, 1, st.ap, prog.cells)}

\* the registers and memory after the program's steps
Stepped(st, address, prog) ==
    LET entry(i) == [pc |-> IF i = 1 THEN st.pc ELSE RelV(st.pc.s, 0),
                     ap |-> st.ap + Min(i - 1, Len(prog.cells)),
                     fp |-> st.fp]
        st1 == load_data(st, 1, st.ap, prog.cells)
        st2 == IF prog.past_code
               THEN load_data(st1, st.program_base, Len(ProgramData), <<IntV(0)>>)
               ELSE st1
    IN [st2 EXCEPT !.trace = @ \o [i \in 1..prog.steps |-> entry(i)],
                   !.ap = @ + Len(prog.cells),
                   !.pc = IF prog.stop = "reached" THEN address
                          ELSE RelV(st.pc.s, 0),
                   !.deductions_ok = @ /\ prog.deductions_ok]

\* inner.run_until_pc(address, hint_processor): steps while pc differs from
\* address and the budget is not consumed
engine_run_until_pc(st, address, budget, prog) ==
    IF st.pc = address THEN Ok(st)
    ELSE IF budget = 0 THEN RuntimeError(st, "UnfinishedExecution")
    ELSE IF ~CanStep(st) THEN RuntimeError(st, "VmException")
    ELSE LET st1 == Stepped(st, address, prog)
         IN CASE prog.stop = "reached" -> Ok(st1)
              [] prog.stop = "fault" -> RuntimeError(st1, "VmException")
              [] OTHER -> RuntimeError(st1, "UnfinishedExecution")

\* inner.end_run(false, false, hint_processor)
end_run(st) ==
    IF st.run_ended THEN RuntimeError(st, "EndRunCalledTwice")
    ELSE LET r == vm_verify_auto_deductions(st)
         IN IF ~r.ok THEN r
            ELSE Ok([compute_effective_sizes(st) EXCEPT !.run_ended = TRUE])

\* run_until_pc calling end_run whatever the run returned, and returning
\* the run's error after it
run_until_pc_finalizing(st, address, budget, prog) ==
    LET r1 == engine_run_until_pc(st, address, budget, prog)
        r2 == end_run(r1.st)
    IN IF ~r1.ok
       THEN [r1 EXCEPT !.st = r2.st,
                       !.steps = <<Step("run_until_pc", r1), Step("end_run", r2)>>]
       ELSE [r2 EXCEPT !.steps = <<Step("run_until_pc", r1), Step("end_run", r2)>>]

run_until_pc(st, address, budget, prog) ==
    LET r1 == engine_run_until_pc(st, address, budget, prog)
    IN IF ~r1.ok THEN WithStep(r1, "run_until_pc")
       ELSE LET r2 == end_run(r1.st)
            IN [r2 EXCEPT !.steps = <<Step("run_until_pc", r1), Step("end_run", r2)>>]

-----------------------------------------------------------------------------
(* verify_auto_deductions, read_return_values, verify_secure_runner *)

verify_auto_deductions(st) ==
    WithStep(vm_verify_auto_deductions(st), "verify_auto_deductions")

\* RunnerError::NoStopPointer(name).to_string(): the message names the builtin
NoStopPointer(name) ==
    IF name = "output" THEN "NoStopPointer(output)"
    ELSE "NoStopPointer(range_check)"

\* BuiltinRunner::final_stack(segments, pointer) of the runner at position
\* idx, pointer being an offset in segment 1 (the segment of get_ap): the cell
\* below the pointer must hold the runner's stop pointer, (base, used size)
final_stack(st, idx, pointer) ==
    LET runner == st.builtin_runners[idx]
        stop == Cell(st, 1, pointer - 1)
        used == st.segment_used_sizes
        sizes == used.v
    IN IF ~runner.included
       THEN OkOut([st EXCEPT !.builtin_runners[idx].stop_ptr = 0], pointer)
       ELSE IF pointer = 0 \/ stop.k # "rel"
       THEN RuntimeError(st, NoStopPointer(runner.name))
       ELSE IF stop.s # runner.base
       THEN RuntimeError(st, "InvalidStopPointerIndex")
       ELSE IF ~IsSome(used) \/ runner.base >= Len(sizes)
       THEN RuntimeError(st, "MissingSegmentUsedSizes")
       ELSE IF stop.o # sizes[runner.base + 1]
       THEN RuntimeError(st, "InvalidStopPointer")
       ELSE OkOut([st EXCEPT !.builtin_runners[idx].stop_ptr = stop.o],
                  pointer - 1)

\* usize::saturating_sub
saturating_sub(a, b) == IF a >= b THEN a - b ELSE 0

\* one name of the walk: what was done for it and how the pointer moved
Walked(name, kind, before, after, ok) ==
    [name |-> name, kind |-> kind, before |-> before, after |-> after, ok |-> ok]

WithWalk(r, walk) == [r EXCEPT !.walk = walk]

\* the loop of _read_return_values over self.builtins.iter().rev(), from
\* position i down
RECURSIVE read_return_values_loop(_, _, _, _)
read_return_values_loop(st, i, pointer, walk) ==
    IF i = 0 THEN WithWalk(OkOut(st, pointer), walk)
    ELSE
    LET name == st.builtins[i]
        found == RunnersOf(st, name)
    IN IF found # {}
       THEN \* find: the first runner of the name
            LET r == final_stack(st, Least(found), pointer)
            IN IF ~r.ok
               THEN WithWalk(r, Append(walk,
                        Walked(name, "final_stack", pointer, pointer, FALSE)))
               ELSE read_return_values_loop(r.st, i - 1, r.out, Append(walk,
                        Walked(name, "final_stack", pointer, r.out, TRUE)))
       ELSE IF ~st.allow_missing_builtins
       THEN WithWalk(RuntimeError(st, "Missing builtin"), Append(walk,
                Walked(name, "missing", pointer, pointer, FALSE)))
       ELSE
       LET p == saturating_sub(pointer, 1)
           cell == Cell(st, 1, p)
           at(ok) == Append(walk, Walked(name, "placeholder", pointer, p, ok))
       IN IF cell.k = "none"
          THEN WithWalk(RuntimeError(st, "UnknownMemoryCell"), at(FALSE))
          ELSE IF cell.k # "int"
          THEN WithWalk(RuntimeError(st, "ExpectedInteger"), at(FALSE))
          ELSE IF cell.o # 0
          THEN WithWalk(RuntimeError(st, "Missing builtin stop ptr not zero"),
                        at(FALSE))
          ELSE read_return_values_loop(st, i - 1, p, at(TRUE))

\* _read_return_values(offset): (get_ap() - offset).unwrap() panics when the
\* offset exceeds ap's offset
read_return_values_inner(st, offset) ==
    IF offset > st.ap THEN Panic(st, "called unwrap on an Err value")
    ELSE read_return_values_loop(st, Len(st.builtins), st.ap - offset, <<>>)

read_return_values(st, offset) ==
    WithStep(read_return_values_inner(st, offset), "read_return_values")

\* cairo_vm::vm::security::verify_secure_runner(&inner, true, None): every
\* runner has its stop pointer, no builtin segment is written past it, the
\* program segment holds no cell past the program's code
engine_verify_secure_runner(st) ==
    LET runners == st.builtin_runners
        size(seg) == IF seg < NumSegments(st) THEN Len(st.memory[seg + 1]) ELSE 0
        unset == {i \in 1..Len(runners) : runners[i].stop_ptr = None}
    IN IF unset # {}
       THEN RuntimeError(st, NoStopPointer(runners[Least(unset)].name))
       ELSE IF \E i \in 1..Len(runners) : size(runners[i].base) > runners[i].stop_ptr
       THEN RuntimeError(st, "OutOfBoundsBuiltinSegmentAccess")
       ELSE IF st.program_base = None
       THEN RuntimeError(st, "NoProgBase")
       ELSE IF size(st.program_base) > Len(ProgramData)
       THEN RuntimeError(st, "OutOfBoundsProgramSegmentAccess")
       ELSE Ok(st)

verify_secure_runner(st) ==
    WithStep(engine_verify_secure_runner(st), "verify_secure_runner")

-----------------------------------------------------------------------------
(* relocate, verify_and_relocate *)

\* SegmentManager::relocate_segments: the flat base of each segment the
\* computed sizes know, the first at 1
RECURSIVE relocate_segments(_, _)
relocate_segments(sizes, n) ==
    IF n = 0 THEN <<>>
    ELSE IF n = 1 THEN <<1>>
    ELSE LET t == relocate_segments(sizes, n - 1)
         IN Append(t, t[n - 1] + sizes[n - 1])

\* every written cell and every address held in a cell lies in a segment of
\* the relocation table
Relocatable(st, table) ==
    \A s \in 1..NumSegments(st) :
        \A i \in 1..Len(st.memory[s]) :
            LET c == st.memory[s][i]
            IN /\ c.k # "none" => s <= Len(table)
               /\ c.k = "rel" => c.s < Len(table)

\* a relocation that relocates again whatever was relocated before
engine_relocate_again(st) ==
    LET st1 == compute_effective_sizes(st)
        table == relocate_segments(st1.segment_used_sizes.v,
                                   Len(st1.segment_used_sizes.v))
        st2 == [st1 EXCEPT !.relocated_memory = TRUE]
    IN IF ~Relocatable(st2, table)
       THEN RuntimeError(st2, "MemoryError::Relocation")
       ELSE IF Len(table) < 2
               \/ \E i \in 1..Len(st2.trace) : st2.trace[i].pc.s >= Len(table)
       THEN RuntimeError(st2, "TraceError::NoRelocationFound")
       ELSE Ok([st2 EXCEPT !.relocated_trace =
                   Some([i \in 1..Len(st2.trace) |->
                       [pc |-> st2.trace[i].pc.o + table[st2.trace[i].pc.s + 1],
                        ap |-> st2.trace[i].ap + table[2],
                        fp |-> st2.trace[i].fp + table[2]]])])

\* inner.relocate(true): relocate_memory refuses a second relocation (its
\* relocated memory is no longer empty), relocate_trace needs the base of
\* segment 1 and rewrites each trace entry
engine_relocate(st) ==
    LET st1 == compute_effective_sizes(st)
        table == relocate_segments(st1.segment_used_sizes.v,
                                   Len(st1.segment_used_sizes.v))
    IN IF st1.relocated_memory
       THEN RuntimeError(st1, "MemoryError::Relocation")
       ELSE
       LET st2 == [st1 EXCEPT !.relocated_memory = TRUE]
       IN IF ~Relocatable(st2, table)
          THEN RuntimeError(st2, "MemoryError::Relocation")
          ELSE IF IsSome(st2.relocated_trace)
          THEN RuntimeError(st2, "TraceError::AlreadyRelocated")
          ELSE IF Len(table) < 2
                  \/ \E i \in 1..Len(st2.trace) : st2.trace[i].pc.s >= Len(table)
          THEN RuntimeError(st2, "TraceError::NoRelocationFound")
          ELSE Ok([st2 EXCEPT !.relocated_trace =
                      Some([i \in 1..Len(st2.trace) |->
                          [pc |-> st2.trace[i].pc.o + table[st2.trace[i].pc.s + 1],
                           ap |-> st2.trace[i].ap + table[2],
                           fp |-> st2.trace[i].fp + table[2]]])])

relocate(st) == WithStep(engine_relocate(st), "relocate")

\* r1 ?, then r2, the result of the next call on r1's runner: r1 when it
\* failed, else r2; the steps and the walks of both are kept
AndThen(r1, r2) ==
    IF ~r1.ok THEN r1
    ELSE [r2 EXCEPT !.steps = r1.steps \o r2.steps,
                    !.walk = r1.walk \o r2.walk]

\* verify_and_relocate relocating whatever verify_secure_runner returned
verify_and_relocate_unchecked(st, offset) ==
    LET r1 == verify_auto_deductions(st)
        r2 == AndThen(r1, read_return_values(r1.st, offset))
        r3 == AndThen(r2, verify_secure_runner(r2.st))
        r4 == relocate(r3.st)
    IN IF Len(r3.steps) < 3 THEN r3
       ELSE [r4 EXCEPT !.steps = r3.steps \o r4.steps, !.walk = r3.walk]

verify_and_relocate(st, offset) ==
    LET r1 == verify_auto_deductions(st)
        r2 == AndThen(r1, read_return_values(r1.st, offset))
        r3 == AndThen(r2, verify_secure_runner(r2.st))
    IN AndThen(r3, relocate(r3.st))

-----------------------------------------------------------------------------
(* relocated_trace, trace_df *)

\* Option::unwrap_or_default of the engine's relocated trace
unwrap_or_default(opt) == IF IsSome(opt) THEN opt.v ELSE <<>>

\* PyRelocatedTraceEntry::from(RelocatedTraceEntry)
PyRelocatedTraceEntry(entry) == [pc |-> entry.pc, ap |-> entry.ap, fp |-> entry.fp]

\* usize as u64: usize is at most 64 bits wide, the cast keeps the value
as_u64(n) == n

\* a relocated_trace getter that unwraps the Option
relocated_trace_unwrapping(st) ==
    IF ~IsSome(st.relocated_trace)
    THEN Panic(st, "called unwrap on a None value")
    ELSE OkOut(st, [i \in 1..Len(st.relocated_trace.v) |->
                       PyRelocatedTraceEntry(st.relocated_trace.v[i])])

\* the relocated_trace getter (&self): the entries of a clone of the
\* engine's relocated trace, none when there is no relocated trace
relocated_trace(st) ==
    LET trace == unwrap_or_default(st.relocated_trace)
    IN OkOut(st, [i \in 1..Len(trace) |-> PyRelocatedTraceEntry(trace[i])])

\* a trace_df getter that takes the relocated trace out of the engine
\* instead of cloning it
trace_df_taking(st) ==
    LET trace == unwrap_or_default(st.relocated_trace)
    IN OkOut([st EXCEPT !.relocated_trace = NoneOf],
             [pc |-> [i \in 1..Len(trace) |-> as_u64(trace[i].pc)],
              ap |-> [i \in 1..Len(trace) |-> as_u64(trace[i].ap)],
              fp |-> [i \in 1..Len(trace) |-> as_u64(trace[i].fp)]])

\* the trace_df getter (&self): the columns pc, ap, fp, a value pushed to
\* each per entry of a clone of the relocated trace; df! fails only for
\* columns of different lengths
trace_df(st) ==
    LET trace == unwrap_or_default(st.relocated_trace)
        pc_values == [i \in 1..Len(trace) |-> as_u64(trace[i].pc)]
        ap_values == [i \in 1..Len(trace) |-> as_u64(trace[i].ap)]
        fp_values == [i \in 1..Len(trace) |-> as_u64(trace[i].fp)]
    IN IF Len(pc_values) # Len(ap_values) \/ Len(pc_values) # Len(fp_values)
       THEN RuntimeError(st, "ShapeMismatch")
       ELSE OkOut(st, [pc |-> pc_values, ap |-> ap_values, fp |-> fp_values])

-----------------------------------------------------------------------------
(* The calls made on one runner *)

\* the verification methods relocation is to come after
Verifications ==
    {"verify_auto_deductions", "read_return_values", "verify_secure_runner"}

\* the last call: the method, its arguments, its result and what it
\* returned, the stack it handed to the engine, its walk over the builtins
\* and the calls it made
Call(op, args, r) ==
    [op |-> op, args |-> args, ok |-> r.ok, err |-> r.err, out |-> r.out,
     handed |-> r.handed, walk |-> r.walk, steps |-> r.steps]

NoCall == Call("new", NoArgs, Ok(<<>>))

\* the method (a public method, or one verify_and_relocate composes) has
\* succeeded within the call op with result r
Succeeded(name, op, r) ==
    \E i \in 1..Len(r.steps) : r.steps[i].name = name /\ r.steps[i].ok

\* what has happened on the runner so far: the verification methods that
\* have succeeded, and the builtin list initialize_vm pushed
Record(op, r) ==
    [done |-> hist.done \cup {name \in Verifications : Succeeded(name, op, r)},
     \* the builtin list whose initial_stack values the last successful
     \* initialize_vm pushed
     pushed |-> IF op = "initialize_vm" /\ r.ok
                THEN r.st.builtins ELSE hist.pushed]

DoWith(op, args, r) ==
    /\ NumSegments(r.st) <= MaxSegments
    /\ Len(r.st.builtin_runners) + 2 <= MaxSegments
    /\ Len(r.st.trace) <= MaxSteps
    /\ self' = r.st
    /\ last' = Call(op, args, r)
    /\ hist' = Record(op, r)

Do(op, r) == DoWith(op, NoArgs, r)

Init ==
    /\ \E c \in Configs : self = new(c.program_builtins, c.layout, c.allow)
    /\ last = NoCall
    /\ hist = [done |-> {}, pushed |-> NoNames]

InitializeSegments == Do("initialize_segments", initialize_segments(self))

\* the stack a caller passes: one argument
CallerStacks == {<<0>>}

InitializeVm ==
    \E stack \in CallerStacks,
       entrypoint \in 0..(Len(ProgramData) - 1),
       ordered_builtins \in OrderedBuiltins :
        DoWith("initialize_vm",
               [NoArgs EXCEPT !.stack = stack, !.ordered_builtins = ordered_builtins],
               initialize_vm(self, stack, entrypoint, ordered_builtins))

\* the addresses a caller passes: the end returned by initialize_vm, the
\* start of the program segment and of the first segment
Addresses(st) ==
    {RelV(0, 0)} \cup ({st.final_pc} \ {Hole})
        \cup (IF st.program_base = None THEN {} ELSE {RelV(st.program_base, 0)})

RunUntilPc ==
    \E address \in Addresses(self), budget \in 0..MaxSteps :
        \/ /\ ~(self.pc # address /\ budget > 0 /\ CanStep(self))
           /\ Do("run_until_pc",
                 run_until_pc(self, address, budget,
                     [steps |-> 0, stop |-> "fault", cells |-> <<>>,
                      past_code |-> FALSE, deductions_ok |-> TRUE]))
        \/ /\ self.pc # address /\ budget > 0 /\ CanStep(self)
           /\ \E prog \in Programs(self, address, budget) :
                 Do("run_until_pc", run_until_pc(self, address, budget, prog))

\* the return offsets a caller passes: every offset down to the start of
\* the segment, and one past it
Offsets(st) == 0..(st.ap + 1)

VerifyAutoDeductions ==
    Do("verify_auto_deductions", verify_auto_deductions(self))

ReadReturnValues ==
    \E offset \in Offsets(self) :
        DoWith("read_return_values", [NoArgs EXCEPT !.offset = offset],
               read_return_values(self, offset))

VerifySecureRunner ==
    Do("verify_secure_runner", verify_secure_runner(self))

VerifyAndRelocate ==
    \E offset \in Offsets(self) :
        DoWith("verify_and_relocate", [NoArgs EXCEPT !.offset = offset],
               verify_and_relocate(self, offset))

Relocate == Do("relocate", relocate(self))

RelocatedTrace == Do("relocated_trace", relocated_trace(self))

TraceDf == Do("trace_df", trace_df(self))

Next ==
    \/ InitializeSegments
    \/ InitializeVm
    \/ RunUntilPc
    \/ VerifyAutoDeductions
    \/ ReadReturnValues
    \/ VerifySecureRunner
    \/ VerifyAndRelocate
    \/ Relocate
    \/ RelocatedTrace
    \/ TraceDf

Spec == Init /\ [][Next]_vars

-----------------------------------------------------------------------------
(* The runner of a program that runs for up to MaxTrace steps, relocated    *)
(* and read back                                                            *)

DoLong(op, r) ==
    /\ NumSegments(r.st) <= MaxSegments
    /\ Len(r.st.builtin_runners) + 2 <= MaxSegments
    /\ Len(r.st.trace) <= MaxTrace
    /\ self' = r.st
    /\ last' = Call(op, NoArgs, r)
    /\ hist' = Record(op, r)

RunLong ==
    \E address \in Addresses(self) :
        /\ self.pc # address /\ CanStep(self)
        /\ \E prog \in Programs(self, address, MaxTrace) :
              DoLong("run_until_pc", run_until_pc(self, address, MaxTrace, prog))

RelocateLong == DoLong("relocate", relocate(self))

RelocatedTraceLong == DoLong("relocated_trace", relocated_trace(self))

TraceDfLong == DoLong("trace_df", trace_df(self))

NextTrace ==
    \/ InitializeSegments
    \/ InitializeVm
    \/ RunLong
    \/ RelocateLong
    \/ RelocatedTraceLong
    \/ TraceDfLong

SpecTrace == Init /\ [][NextTrace]_vars

-----------------------------------------------------------------------------
(* The runner up to read_return_values, initialize_vm being given every     *)
(* order of the builtins                                                    *)

WalkBuiltins ==
    OrderedBuiltins \cup {<<"range_check_builtin">>,
                          <<"range_check_builtin", "output_builtin">>}

InitializeVmWalk ==
    \E stack \in CallerStacks,
       entrypoint \in 0..(Len(ProgramData) - 1),
       ordered_builtins \in WalkBuiltins :
        DoWith("initialize_vm",
               [NoArgs EXCEPT !.stack = stack, !.ordered_builtins = ordered_builtins],
               initialize_vm(self, stack, entrypoint, ordered_builtins))

NextWalk ==
    \/ InitializeSegments
    \/ InitializeVmWalk
    \/ RunUntilPc
    \/ ReadReturnValues

SpecWalk == Init /\ [][NextWalk]_vars

-----------------------------------------------------------------------------
(* Properties *)

IsPrefix(s, t) == Len(s) <= Len(t) /\ \A i \in 1..Len(s) : s[i] = t[i]

StepNames(steps) == [i \in 1..Len(steps) |-> steps[i].name]

WalkNames(walk) == [i \in 1..Len(walk) |-> walk[i].name]

VerifyAndRelocateOrder ==
    <<"verify_auto_deductions", "read_return_values", "verify_secure_runner",
      "relocate">>

\* C1: verify_and_relocate(offset) makes its calls in the order
\* verify_auto_deductions, read_return_values(offset), verify_secure_runner,
\* relocate; a call is made only when every call before it succeeded, the
\* error of the first failing call is the error of verify_and_relocate, and
\* the call changes the relocated trace only when the three verification
\* calls succeeded.
C1_VerifyAndRelocateOrder ==
    [][last'.op = "verify_and_relocate" =>
        /\ last'.steps # <<>>
        /\ IsPrefix(StepNames(last'.steps), VerifyAndRelocateOrder)
        /\ \A i \in 1..Len(last'.steps) :
              /\ i < Len(last'.steps) => last'.steps[i].ok
              /\ ~last'.steps[i].ok =>
                    ~last'.ok /\ last'.err = last'.steps[i].err
        /\ last'.ok => Len(last'.steps) = Len(VerifyAndRelocateOrder)
        /\ self'.relocated_trace # self.relocated_trace =>
              /\ Len(last'.steps) = Len(VerifyAndRelocateOrder)
              /\ \A i \in 1..3 : last'.steps[i].ok]_vars

\* verify_and_relocate stopped at a failing verify_secure_runner, and the
\* runner has no relocated trace
C1_Witness ==
    /\ last.op = "verify_and_relocate"
    /\ ~last.ok
    /\ StepNames(last.steps) =
          <<"verify_auto_deductions", "read_return_values", "verify_secure_runner">>
    /\ ~IsSome(self.relocated_trace)

\* C2: a run_until_pc call made before initialize_vm has succeeded fails,
\* and so does a verify_and_relocate call made before run_until_pc has
\* succeeded.
C2_OutOfOrderCallFails ==
    /\ (last.op = "run_until_pc" /\ self.final_pc = Hole) => ~last.ok
    /\ (last.op = "verify_and_relocate" /\ ~self.run_ended) => ~last.ok

\* C3: the runner has a relocated trace only when verify_auto_deductions,
\* read_return_values and verify_secure_runner have all succeeded on it.
C3_RelocatedOnlyAfterVerification ==
    IsSome(self.relocated_trace) => Verifications \subseteq hist.done

RelocationError == PyErr("PyRuntimeError", "MemoryError::Relocation")

\* C4: once the runner has a relocated trace, every further relocate or
\* verify_and_relocate call fails and leaves the relocated trace as it was;
\* the error is the relocation error whenever the call got as far as
\* relocating (a verify_and_relocate call that fails in a verification step
\* returns that step's error).
C4_RelocatesOnce ==
    [][(IsSome(self.relocated_trace)
            /\ last'.op \in {"relocate", "verify_and_relocate"}) =>
        /\ ~last'.ok
        /\ self'.relocated_trace = self.relocated_trace
        /\ last'.steps[Len(last'.steps)].name = "relocate" =>
              last'.err = RelocationError]_vars

\* a second relocate call has failed with the relocation error on a runner
\* that holds a relocated trace of one entry
C4_Witness ==
    /\ last.op = "relocate"
    /\ last.err = RelocationError
    /\ IsSome(self.relocated_trace)
    /\ Len(self.relocated_trace.v) = 1

\* C4 as stated: once the runner has a relocated trace, every further
\* relocate or verify_and_relocate call fails with the relocation error and
\* leaves the relocated trace as it was.
C4_AlwaysRelocationError ==
    [][(IsSome(self.relocated_trace)
            /\ last'.op \in {"relocate", "verify_and_relocate"}) =>
        /\ last'.err = RelocationError
        /\ self'.relocated_trace = self.relocated_trace]_vars

\* C5: the names read_return_values walks are the names whose initial_stack
\* values initialize_vm pushed, in reverse order.
C5_LifoPairing ==
    (last.walk # <<>> /\ hist.pushed # NoNames) =>
        IsPrefix(WalkNames(last.walk), Reverse(hist.pushed))

\* C6: a tolerated missing builtin whose placeholder is accepted moves the
\* pointer down by exactly one cell, wherever the pointer is.
C6_PlaceholderMovesByOne ==
    \A i \in 1..Len(last.walk) :
        (last.walk[i].kind = "placeholder" /\ last.walk[i].ok) =>
            last.walk[i].after = last.walk[i].before - 1

\* C7: with allow_missing_builtins set, initialize_vm on an initialized runner
\* does not fail because a builtin of the program is missing from the layout.
C7_MissingBuiltinTolerated ==
    (/\ last.op = "initialize_vm"
     /\ self.allow_missing_builtins
     /\ self.program_base # None
     /\ Range(self.builtins) \subseteq Range(self.program_builtins)) =>
        last.err.msg # "Builtin runner not found"

\* the stack of the builtins names, each the base of the runner the name
\* resolves to (a hole for a name that resolves to none), followed by the
\* caller's values
ExpectedStack(st, names, stack) ==
    [i \in 1..Len(names) |->
        IF RunnersOf(st, names[i]) = {} THEN Hole
        ELSE RelV(st.builtin_runners[Max(RunnersOf(st, names[i]))].base, 0)]
    \o [i \in 1..Len(stack) |-> IntV(stack[i])]

Parsed(ordered_builtins) ==
    [i \in 1..Len(ordered_builtins) |-> from_str_with_suffix(ordered_builtins[i])]

\* C8: the stack initialize_vm hands to the engine is the initial_stack
\* values of the builtins in the configured order, ordered_builtins if
\* supplied and else the program's builtin list, followed by the caller's
\* stack in its order.
C8_StackConstruction ==
    [][(last'.op = "initialize_vm" /\ last'.steps # <<>>) =>
        last'.handed =
            ExpectedStack(self,
                IF last'.args.ordered_builtins # NoNames
                THEN Parsed(last'.args.ordered_builtins)
                ELSE self.program_builtins,
                last'.args.stack)]_vars

\* C9: once a call on the runner has failed, no later call on it succeeds.
C9_FailureIsTerminal ==
    [][(last.op # "new" /\ ~last.ok) => ~last'.ok]_vars

\* the builtins of the program the layout does not offer
MissingFromLayout(st) == Range(st.program_builtins) \ st.layout

\* C10: when the program lists its builtins in order and one of them is
\* missing from the layout, initialize_segments fails with the
\* builtin-initialization error and program_base stays unset if
\* allow_missing_builtins is false, and succeeds if it is true.
C10_InitializeSegmentsMissingBuiltin ==
    (/\ last.op = "initialize_segments"
     /\ MissingFromLayout(self) # {}
     /\ is_subsequence(self.program_builtins, BuiltinOrder)) =>
        IF self.allow_missing_builtins
        THEN last.ok /\ self.program_base # None
        ELSE /\ ~last.ok
             /\ last.err = PyErr("PyRuntimeError", "NoBuiltinForInstance")
             /\ self.program_base = None

\* initialize_segments has failed on a runner whose layout lacks a builtin
\* of the program, missing builtins not being allowed
C10_Witness ==
    /\ last.op = "initialize_segments"
    /\ ~last.ok
    /\ MissingFromLayout(self) # {}
    /\ ~self.allow_missing_builtins
    /\ self.program_base = None

\* the rows of a table of columns pc, ap, fp
Rows(table) ==
    [i \in 1..Len(table.pc) |->
        [pc |-> table.pc[i], ap |-> table.ap[i], fp |-> table.fp[i]]]

\* C11: trace_df succeeds with a table of one row per entry of the relocated
\* trace, row i holding the pc, ap and fp of entry i; it leaves the runner as
\* it was, and a trace_df call right after a trace_df call returns the same
\* table.
C11_TraceDfRows ==
    [][last'.op = "trace_df" =>
        /\ last'.ok
        /\ self' = self
        /\ Len(last'.out.ap) = Len(last'.out.pc)
        /\ Len(last'.out.fp) = Len(last'.out.pc)
        /\ Rows(last'.out) =
              (IF self.relocated_trace.some THEN self.relocated_trace.v ELSE <<>>)
        /\ last.op = "trace_df" => last'.out = last.out]_vars

\* trace_df has returned two rows that differ, in the order of the trace
C11_Witness ==
    /\ last.op = "trace_df"
    /\ Len(last.out.pc) = 2
    /\ last.out.ap[1] < last.out.ap[2]
    /\ Len(self.trace) = 2
    /\ self.trace[1].ap < self.trace[2].ap

BudgetExhausted(call) ==
    call.op = "run_until_pc" /\ ~call.ok /\ call.err.msg = "UnfinishedExecution"

ExecutionFault(call) ==
    call.op = "run_until_pc" /\ ~call.ok /\ call.err.msg = "VmException"

\* C12: a run_until_pc call that fails because the budget is exhausted
\* returns an error of another kind than a run_until_pc call that fails with
\* an execution fault.
C12_ExhaustionIsItsOwnKind ==
    [][(BudgetExhausted(last) /\ ExecutionFault(last')) =>
        last'.err.type # last.err.type]_vars

\* the phase a failed call failed in: the call it made last
FailedPhase(call) == call.steps[Len(call.steps)].name

VerifyingCall(call) ==
    call.op \in Verifications \cup {"relocate", "verify_and_relocate"}

\* C13: the error of a failed verification or relocation call tells the
\* phase it arose in: two such calls that return the same error failed in
\* the same phase.
C13_ErrorTellsPhase ==
    [][(/\ VerifyingCall(last) /\ ~last.ok
        /\ VerifyingCall(last') /\ ~last'.ok
        /\ last'.err = last.err) =>
        FailedPhase(last') = FailedPhase(last)]_vars

\* C14: a read_return_values(offset) call that succeeds over a list of n
\* names ends with the pointer (ap - offset) - n.
C14_OneCellPerName ==
    (last.op = "read_return_values" /\ last.ok) =>
        last.out = (self.ap - last.args.offset) - Len(self.builtins)

\* C15: run_until_pc calls the engine's end_run if and only if the engine's
\* run_until_pc succeeded; a failed run is returned as it is, with the runner
\* not ended by the call, and run_until_pc succeeds only if both calls did.
C15_EndRunAfterRun ==
    [][last'.op = "run_until_pc" =>
        /\ last'.steps # <<>>
        /\ last'.steps[1].name = "run_until_pc"
        /\ Len(last'.steps) <= 2
        /\ Len(last'.steps) = 2 <=>
              last'.steps[1].ok /\ last'.steps[2].name = "end_run"
        /\ last'.ok <=> \A i \in 1..2 : i <= Len(last'.steps) /\ last'.steps[i].ok
        /\ ~last'.steps[1].ok =>
              /\ last'.err = last'.steps[1].err
              /\ self'.run_ended = self.run_ended
              /\ self'.segment_used_sizes = self.segment_used_sizes]_vars

\* run_until_pc has failed on an exhausted budget after a step, and the
\* runner is not ended
C15_Witness ==
    /\ BudgetExhausted(last)
    /\ StepNames(last.steps) = <<"run_until_pc">>
    /\ self.trace # <<>>
    /\ ~self.run_ended

\* the kinds of the errors a method returns (PyErr values)
ReturnedErrors == {"PyRuntimeError", "PyValueError"}

\* C16: read_return_values(offset) with an offset larger than the offset of
\* ap returns an error value.
C16_OffsetBeyondApIsAnError ==
    (last.op = "read_return_values" /\ last.args.offset > self.ap) =>
        ~last.ok /\ last.err.type \in ReturnedErrors

\* C17: initialize_vm given ordered_builtins with a string that is no valid
\* builtin name fails with the invalid-name error and leaves the runner as it
\* was: the builtin list is not changed, no segment is allocated and the
\* engine is not called.
C17_InvalidNameChangesNothing ==
    [][(/\ last'.op = "initialize_vm"
        /\ last'.args.ordered_builtins # NoNames
        /\ \E i \in 1..Len(last'.args.ordered_builtins) :
              from_str_with_suffix(last'.args.ordered_builtins[i]) = InvalidName) =>
        /\ ~last'.ok
        /\ last'.err = PyErr("PyValueError", "Invalid builtin name")
        /\ last'.steps = <<>>
        /\ self' = self]_vars

\* initialize_vm has failed on an invalid name on a runner that holds
\* segments and builtin runners, whose builtin list is the program's
C17_Witness ==
    /\ last.op = "initialize_vm"
    /\ last.err = PyErr("PyValueError", "Invalid builtin name")
    /\ self.program_base # None
    /\ self.builtins = self.program_builtins

\* C18: while the runner has no relocated trace, relocated_trace succeeds
\* with no entries and trace_df succeeds with no rows; relocated_trace
\* returns entries only when relocation has succeeded.
C18_EmptyBeforeRelocation ==
    /\ (last.op = "relocated_trace" /\ ~self.relocated_trace.some) =>
          last.ok /\ last.out = <<>>
    /\ (last.op = "trace_df" /\ ~self.relocated_trace.some) =>
          last.ok /\ last.out = [pc |-> <<>>, ap |-> <<>>, fp |-> <<>>]
    /\ (last.op = "relocated_trace" /\ last.ok /\ last.out # <<>>) =>
          self.relocated_trace.some /\ self.relocated_memory

\* relocated_trace has returned no entries on a runner that has run and
\* recorded a trace but is not relocated
C18_Witness ==
    /\ last.op = "relocated_trace"
    /\ last.ok
    /\ last.out = <<>>
    /\ self.trace # <<>>
    /\ ~self.relocated_trace.some

====
